---------------------------- MODULE Spec2Model ----------------------------
(***************************************************************************)
(* Model of modvir/vegind.py: the swath-to-grid aggregation (_regrid),     *)
(* the three NDVI -> fPAR conversions and the VegInd container methods.    *)
(*                                                                         *)
(* Array values are IEEE-754 numbers.  A value is a pair <<n, d>>:         *)
(*   d > 0      the rational n/d in lowest terms (finite arithmetic is     *)
(*              exact: rounding is not modelled),                          *)
(*   <<0, 0>>   NaN,   <<1, 0>>  +inf,   <<-1, 0>>  -inf.                  *)
(* Reflectances are the raw integers the reader delivers; the sets they   *)
(* are drawn from keep |red| + |nir| below 2^15 for every pixel that is    *)
(* not a fill value, so the 16-bit sums of line 71 cannot wrap.            *)
(***************************************************************************)
EXTENDS Integers, Sequences, FiniteSets, TLC

VARIABLES
    dsout,      \* the VegInd container: [NDVI, input_files]
    flist,      \* glob result of the current _regrid call (sequence of granules)
    mask,       \* mask argument of the current _regrid call
    num,        \* accumulators of _regrid (per cell)
    red,
    nir,
    idx,        \* position of the "for ff in flist" loop (next file to read)
    pc,         \* "idle" | "loop" | "done" | "failed"
    err,        \* exception raised by the last call ("" when none)
    conv        \* result of the last conversion: [policy, lctype, fpar]

vars == <<dsout, flist, mask, num, red, nir, idx, pc, err, conv>>

----------------------------------------------------------------------------
(* IEEE-754 values with exact finite arithmetic *)

AbsI(n) == IF n < 0 THEN -n ELSE n

SignI(n) == IF n < 0 THEN -1 ELSE IF n > 0 THEN 1 ELSE 0

RECURSIVE GCD(_, _)
GCD(a, b) == IF b = 0 THEN a ELSE GCD(b, a % b)

\* n/d with d # 0, in lowest terms with a positive denominator
Q(n, d) ==
    LET g == GCD(AbsI(n), AbsI(d))
        s == SignI(d)
    IN  <<(s * n) \div g, (s * d) \div g>>

NaN == <<0, 0>>

PInf == <<1, 0>>

NInf == <<-1, 0>>

F(n) == <<n, 1>>

isnan(x) == x = NaN

IsInf(x) == x[2] = 0 /\ x[1] # 0

IsFinite(x) == x[2] > 0

Neg(x) == <<-x[1], x[2]>>

Add(a, b) ==
    IF isnan(a) \/ isnan(b) THEN NaN
    ELSE IF IsInf(a) /\ IsInf(b) THEN (IF a = b THEN a ELSE NaN)
    ELSE IF IsInf(a) THEN a
    ELSE IF IsInf(b) THEN b
    ELSE LET g == GCD(a[2], b[2])
         IN  Q(a[1] * (b[2] \div g) + b[1] * (a[2] \div g), (a[2] \div g) * b[2])

Sub(a, b) == Add(a, Neg(b))

Mul(a, b) ==
    IF isnan(a) \/ isnan(b) THEN NaN
    ELSE IF IsInf(a) \/ IsInf(b)
         THEN (IF a[1] = 0 \/ b[1] = 0 THEN NaN
               ELSE <<SignI(a[1]) * SignI(b[1]), 0>>)
    ELSE LET g1 == GCD(AbsI(a[1]), b[2])
             g2 == GCD(AbsI(b[1]), a[2])
         IN  Q((a[1] \div g1) * (b[1] \div g2), (a[2] \div g2) * (b[2] \div g1))

\* division with np.errstate(divide='ignore', invalid='ignore'): x/0 is +-inf,
\* 0/0 is NaN, nothing is raised (zero denominators are +0.0)
Div(a, b) ==
    IF isnan(a) \/ isnan(b) THEN NaN
    ELSE IF IsInf(b) THEN (IF IsInf(a) THEN NaN ELSE F(0))
    ELSE IF b[1] = 0 THEN (IF a[1] = 0 THEN NaN ELSE <<SignI(a[1]), 0>>)
    ELSE IF IsInf(a) THEN <<SignI(a[1]) * SignI(b[1]), 0>>
    ELSE Mul(a, Q(b[2], b[1]))

\* comparisons: every comparison with NaN is False
Lt(a, b) ==
    /\ ~isnan(a) /\ ~isnan(b)
    /\ IF IsInf(a) \/ IsInf(b)
       THEN a # b /\ (a = NInf \/ b = PInf)
       ELSE a[1] * b[2] < b[1] * a[2]

Le(a, b) == ~isnan(a) /\ ~isnan(b) /\ (a = b \/ Lt(a, b))

\* np.minimum / np.maximum: NaN propagates
minimum(a, b) ==
    IF isnan(a) \/ isnan(b) THEN NaN ELSE IF Lt(b, a) THEN b ELSE a

maximum(a, b) ==
    IF isnan(a) \/ isnan(b) THEN NaN ELSE IF Lt(a, b) THEN b ELSE a

----------------------------------------------------------------------------
(* Module constants *)

NDVIMIN == Q(-3, 10)

FILLVAL == 32767

QCBAD == 255

NTYPE == 18

NDVI02P == [nn \in 0..17 |-> Q(33, 1000)]

NDVI98P ==
    LET t == <<72, 84, 88, 80, 88, 86, 74, 72, 80, 80, 72, 78, 78, 78, 82, 72, 72, 72>>
    IN  [nn \in 0..17 |-> Q(t[nn + 1], 100)]

fPMIN == Q(1, 100)

fPMAX == Q(95, 100)

----------------------------------------------------------------------------
(* Output grid, histogram bins and array shapes *)

nlat == 2

nlon == 2

Cells == (1..nlat) \X (1..nlon)

GridShape == <<nlat, nlon>>

\* edges(nlat, nlon): nlat+1 / nlon+1 strictly increasing bin edges in degrees
late == [k \in 1..(nlat + 1) |-> -90 + ((k - 1) * 180) \div nlat]

lone == [k \in 1..(nlon + 1) |-> -180 + ((k - 1) * 360) \div nlon]

\* np.histogram bin of x: [e[k], e[k+1]) and the last bin closed; 0 = outside
BinOf(x, e, n) ==
    IF x < e[1] \/ x > e[n + 1] THEN 0
    ELSE IF x = e[n + 1] THEN n
    ELSE CHOOSE k \in 1..n : e[k] <= x /\ x < e[k + 1]

CellOf(p) == <<BinOf(p.lat, late, nlat), BinOf(p.lon, lone, nlon)>>

None == [c \in {} |-> 0]

zeros == [c \in Cells |-> 0]

\* an ndarray: its shape and its values by index tuple
Indices(shape) ==
    {ix \in [1..Len(shape) -> 1..(nlat + nlon + 1)] :
        \A k \in 1..Len(shape) : ix[k] <= shape[k]}

Full(shape, v) == [shape |-> shape, data |-> [ix \in Indices(shape) |-> v]]

\* numpy broadcasting of two shapes, aligned on the right
DimAt(shape, k, n) ==
    IF k <= n - Len(shape) THEN 1 ELSE shape[k - (n - Len(shape))]

MaxI(a, b) == IF a < b THEN b ELSE a

\* mutant: shapes must be equal (no broadcasting)
SameShape(s1, s2) == s1 = s2

CanBroadcast(s1, s2) ==
    LET n == MaxI(Len(s1), Len(s2))
    IN  \A k \in 1..n :
            \/ DimAt(s1, k, n) = DimAt(s2, k, n)
            \/ DimAt(s1, k, n) = 1
            \/ DimAt(s2, k, n) = 1

BroadcastShape(s1, s2) ==
    LET n == MaxI(Len(s1), Len(s2))
    IN  [k \in 1..n |-> MaxI(DimAt(s1, k, n), DimAt(s2, k, n))]

\* element of array a seen at index ix of a broadcast result
BRead(a, ix) ==
    LET off == Len(ix) - Len(a.shape)
    IN  a.data[[k \in 1..Len(a.shape) |->
                    IF a.shape[k] = 1 THEN 1 ELSE ix[k + off]]]

----------------------------------------------------------------------------
(* _regrid: filtering, binning, accumulation *)

\* the reader's pixel: coordinates from singrid, raw reflectances and QC flags
Pixel(lat, lon, r, rqc, n, nqc) ==
    [lat |-> lat, lon |-> lon, red |-> r, redqc |-> rqc, nir |-> n, nirqc |-> nqc]

\* a granule file: its path (directory, base name) and its pixels
Granule(base, px) == [path |-> <<"dirin", base>>, px |-> px]

basename(path) == path[2]

\* line 71: NDVIMIN*(nirin + redin) <= nirin - redin
FloorTest(p) == Le(Mul(NDVIMIN, F(p.nir + p.red)), F(p.nir - p.red))

\* mutant: the fill value tested without abs()
iokNoAbs(p) ==
    /\ p.red # FILLVAL
    /\ p.redqc # QCBAD
    /\ p.nir # FILLVAL
    /\ p.nirqc # QCBAD
    /\ FloorTest(p)

iok(p) ==
    /\ AbsI(p.red) # FILLVAL
    /\ p.redqc # QCBAD
    /\ AbsI(p.nir) # FILLVAL
    /\ p.nirqc # QCBAD
    /\ FloorTest(p)

Weight(p, w) == IF w = "red" THEN p.red ELSE IF w = "nir" THEN p.nir ELSE 1

\* np.histogram2d(LAin[iok], LOin[iok], bins=(late,lone), weights=...)[0] at cell c
RECURSIVE HistAt(_, _, _)
HistAt(px, c, w) ==
    IF px = <<>> THEN 0
    ELSE (IF iok(Head(px)) /\ CellOf(Head(px)) = c THEN Weight(Head(px), w) ELSE 0)
         + HistAt(Tail(px), c, w)

histogram2d(px, w) == [c \in Cells |-> HistAt(px, c, w)]

\* mutant: the granule's histograms overwrite the accumulators
AccumulateOverwrite(acc, g) ==
    <<histogram2d(g.px, "one"), histogram2d(g.px, "red"), histogram2d(g.px, "nir")>>

\* lines 79-81: one pass of the loop body over accumulator acc = <<num, red, nir>>
Accumulate(acc, g) ==
    <<[c \in Cells |-> acc[1][c] + histogram2d(g.px, "one")[c]],
      [c \in Cells |-> acc[2][c] + histogram2d(g.px, "red")[c]],
      [c \in Cells |-> acc[3][c] + histogram2d(g.px, "nir")[c]]>>

\* the whole loop over a file list, from zeroed accumulators
RECURSIVE Loop(_, _)
Loop(acc, files) ==
    IF files = <<>> THEN acc ELSE Loop(Accumulate(acc, Head(files)), Tail(files))

Aggregate(files) == Loop(<<zeros, zeros, zeros>>, files)

\* mutant: a guarded division that fills 0 where the denominator is 0
RatioZeroFill(nirc, redc) ==
    IF nirc + redc = 0 THEN F(0) ELSE Div(F(nirc - redc), F(nirc + redc))

\* line 86
Ratio(nirc, redc) == Div(F(nirc - redc), F(nirc + redc))

\* line 91, at one cell
Blend(v, m) == Add(Mul(Sub(v, NDVIMIN), m), NDVIMIN)

NoMask == [given |-> FALSE, arr |-> Full(<<>>, F(0))]

MaskOf(a) == [given |-> TRUE, arr |-> a]

\* lines 84-95: the NDVI grid, or the error raised ("" = none)
Derive(nirA, redA, m) ==
    LET ndvi == [c \in Cells |-> Ratio(nirA[c], redA[c])]
    IN  IF ~m.given THEN [err |-> "", NDVI |-> ndvi]
        ELSE IF ~CanBroadcast(GridShape, m.arr.shape)
             THEN [err |-> "ValueError", NDVI |-> None]
        ELSE IF BroadcastShape(GridShape, m.arr.shape) # GridShape
             THEN [err |-> "ValueError", NDVI |-> None]
        ELSE [err |-> "",
              NDVI |-> [c \in Cells |-> Blend(ndvi[c], BRead(m.arr, c))]]

----------------------------------------------------------------------------
(* NDVI -> fPAR conversions *)

zeros_like(ndvi) == [c \in Cells |-> F(0)]

\* mutant: the NaN cells are left as they are
NanKept(fpar) == fpar

\* fpar[np.isnan(fpar)] = 0.
NanToZero(fpar) == [c \in Cells |-> IF isnan(fpar[c]) THEN F(0) ELSE fpar[c]]

srfun(xx) == Div(Add(F(1), xx), Sub(F(1), xx))

\* lines 113-126 at one cell of class nn
LosCell(v, nn) ==
    LET N0 == NDVI02P[nn]
        N1 == NDVI98P[nn]
        S0 == srfun(N0)
        S1 == srfun(N1)
        sr == srfun(minimum(v, N1))
        fpsr0 == Add(Div(Mul(Sub(sr, S0), Sub(fPMAX, fPMIN)), Sub(S1, S0)), fPMIN)
        fpnd0 == Add(Div(Mul(Sub(v, N0), Sub(fPMAX, fPMIN)), Sub(N1, N0)), fPMIN)
        fpsr == maximum(fPMIN, minimum(fPMAX, fpsr0))
        fpnd == maximum(fPMIN, minimum(fPMAX, fpnd0))
    IN  Mul(Q(1, 2), Add(fpsr, fpnd))

\* whether the boolean index "lctype == nn" can index a (nlat, nlon) array:
\* a 0-d index, a full-shape index, or a 1-d index over the rows
LosIndexable(lc) ==
    \/ lc.shape = <<>>
    \/ lc.shape = GridShape
    \/ lc.shape = <<nlat>>

\* ime = lctype == nn, as it selects cell c
LosSelects(lc, c, nn) ==
    IF lc.shape = <<>> THEN lc.data[<<>>] = nn
    ELSE IF lc.shape = GridShape THEN lc.data[c] = nn
    ELSE lc.data[<<c[1]>>] = nn

\* the loop "for nn in range(NTYPE)" from class nn on
RECURSIVE LosLoop(_, _, _, _)
LosLoop(fpar, ndvi, lc, nn) ==
    IF nn >= NTYPE THEN fpar
    ELSE LosLoop([c \in Cells |->
                    IF LosSelects(lc, c, nn) THEN LosCell(ndvi[c], nn) ELSE fpar[c]],
                 ndvi, lc, nn + 1)

ndvi2fpar_los(ndvi, lc) ==
    IF ~LosIndexable(lc) THEN [err |-> "IndexError", fpar |-> None]
    ELSE [err |-> "", fpar |-> NanToZero(LosLoop(zeros_like(ndvi), ndvi, lc, 0))]

LinCell(v) ==
    LET N0 == Q(10, 100)
        N1 == Q(80, 100)
        f0 == Add(Div(Mul(Sub(v, N0), Sub(fPMAX, fPMIN)), Sub(N1, N0)), fPMIN)
    IN  maximum(fPMIN, minimum(fPMAX, f0))

ndvi2fpar_lin(ndvi) ==
    [err |-> "", fpar |-> NanToZero([c \in Cells |-> LinCell(ndvi[c])])]

\* mutant: the lower threshold of the commented-out line 152
JojoN0Old == Q(25, 100)

JojoN0 == Q(15, 100)

JojoN1 == Q(75, 100)

\* mutant: the ramp excludes its upper end
irampOpen(v) == Lt(JojoN0, v) /\ Lt(v, JojoN1)

iramp(v) == Lt(JojoN0, v) /\ Le(v, JojoN1)

ifree(v) == Lt(JojoN1, v)

JojoRamp(v) == Mul(Div(Sub(v, JojoN0), Sub(JojoN1, JojoN0)), JojoN1)

ndvi2fpar_jojo(ndvi) ==
    LET fpar0 == zeros_like(ndvi)
        fpar1 == [c \in Cells |-> IF iramp(ndvi[c]) THEN JojoRamp(ndvi[c]) ELSE fpar0[c]]
        fpar2 == [c \in Cells |-> IF ifree(ndvi[c]) THEN ndvi[c] ELSE fpar1[c]]
    IN  [err |-> "", fpar |-> NanToZero(fpar2)]

----------------------------------------------------------------------------
(* VegInd container and the calls made on it *)

\* VegInd(): NDVI blank (NaN), no input files
Blank == [NDVI |-> [c \in Cells |-> NaN], input_files |-> <<>>]

\* VegInd(dataset=...): wraps an existing dataset
Wrap(ndvi, files) == [NDVI |-> ndvi, input_files |-> files]

NoField == Full(<<>>, 0)

NoConv == [policy |-> "", lctype |-> NoField, ndvi |-> None, err |-> "", fpar |-> None]

Converted(policy, lc, ndvi, r) ==
    [policy |-> policy, lctype |-> lc, ndvi |-> ndvi, err |-> r.err, fpar |-> r.fpar]

\* mutant: no check of the empty file list
RegridStartUnchecked(d, m) ==
    /\ pc = "idle"
    /\ conv = NoConv
    /\ flist' = d
    /\ mask' = m
    /\ pc' = "loop"
    /\ err' = ""
    /\ num' = zeros
    /\ red' = zeros
    /\ nir' = zeros
    /\ idx' = 1
    /\ UNCHANGED <<dsout, conv>>

\* lines 37-49: glob, the empty check, the zeroed accumulators
RegridStart(d, m) ==
    /\ pc = "idle"
    /\ conv = NoConv
    /\ flist' = d
    /\ mask' = m
    /\ IF Len(d) = 0
       THEN /\ pc' = "failed"
            /\ err' = "EOFError"
            /\ UNCHANGED <<num, red, nir, idx>>
       ELSE /\ pc' = "loop"
            /\ err' = ""
            /\ num' = zeros
            /\ red' = zeros
            /\ nir' = zeros
            /\ idx' = 1
    /\ UNCHANGED <<dsout, conv>>

\* lines 53-81: one file of the loop
RegridGranule ==
    /\ pc = "loop"
    /\ idx <= Len(flist)
    /\ LET acc == Accumulate(<<num, red, nir>>, flist[idx])
       IN  /\ num' = acc[1]
           /\ red' = acc[2]
           /\ nir' = acc[3]
    /\ idx' = idx + 1
    /\ UNCHANGED <<dsout, flist, mask, pc, err, conv>>

\* lines 84-98: ratio, mask blending, filling the container
RegridFinish ==
    /\ pc = "loop"
    /\ idx > Len(flist)
    /\ LET r == Derive(nir, red, mask)
       IN  IF r.err # ""
           THEN /\ pc' = "failed"
                /\ err' = r.err
                /\ UNCHANGED dsout
           ELSE /\ pc' = "done"
                /\ err' = ""
                /\ dsout' = [NDVI |-> r.NDVI,
                             input_files |->
                                 [k \in 1..Len(flist) |-> basename(flist[k].path)]]
    /\ UNCHANGED <<flist, mask, num, red, nir, idx, conv>>

\* VegInd.ndvi2fpar(lctype), lines 199-206: the land-cover field is not read
Ndvi2fpar(lc) ==
    /\ pc # "loop"
    /\ conv' = Converted("ndvi2fpar", lc, dsout.NDVI, ndvi2fpar_jojo(dsout.NDVI))
    /\ UNCHANGED <<dsout, flist, mask, num, red, nir, idx, pc, err>>

\* direct calls of the three conversion functions on the container's NDVI values
CallLos(lc) ==
    /\ pc # "loop"
    /\ conv' = Converted("los", lc, dsout.NDVI, ndvi2fpar_los(dsout.NDVI, lc))
    /\ UNCHANGED <<dsout, flist, mask, num, red, nir, idx, pc, err>>

CallLin ==
    /\ pc # "loop"
    /\ conv' = Converted("lin", NoField, dsout.NDVI, ndvi2fpar_lin(dsout.NDVI))
    /\ UNCHANGED <<dsout, flist, mask, num, red, nir, idx, pc, err>>

CallJojo ==
    /\ pc # "loop"
    /\ conv' = Converted("jojo", NoField, dsout.NDVI, ndvi2fpar_jojo(dsout.NDVI))
    /\ UNCHANGED <<dsout, flist, mask, num, red, nir, idx, pc, err>>

InitWith(ds) ==
    /\ dsout = ds
    /\ flist = <<>>
    /\ mask = NoMask
    /\ num = None
    /\ red = None
    /\ nir = None
    /\ idx = 0
    /\ pc = "idle"
    /\ err = ""
    /\ conv = NoConv

----------------------------------------------------------------------------
(* Bounded inputs *)

MaxFiles == 3

MaxPix == 3

FileNames == <<"a.hdf", "b.hdf", "c.hdf", "d.hdf", "e.hdf", "f.hdf">>

\* pixel kinds of the aggregation runs: two valid pixels in different cells,
\* a dark pixel (both bands 0), a pixel with a negative red band, and a red
\* fill value
PixKinds ==
    { Pixel(-45, -90, 100, 0, 300, 0),
      Pixel(45, 90, 200, 1, 400, 0),
      Pixel(-45, -90, 0, 0, 0, 0),
      Pixel(-45, -90, -100, 0, 100, 0),
      Pixel(-45, -90, 32767, 0, 300, 0) }

PixSeqs == UNION {[1..k -> PixKinds] : k \in 0..MaxPix}

\* the k-th smallest element of a set of integers
Kth(S, k) == CHOOSE x \in S : Cardinality({y \in S : y < x}) = k - 1

\* the files of a directory: pixel sequence ps cut after the positions in cuts
MkDir(ps, cuts) ==
    IF ps = <<>> THEN <<>>
    ELSE [j \in 1..(Cardinality(cuts) + 1) |->
            Granule(FileNames[j],
                    SubSeq(ps,
                           IF j = 1 THEN 1 ELSE Kth(cuts, j - 1) + 1,
                           IF j = Cardinality(cuts) + 1 THEN Len(ps) ELSE Kth(cuts, j)))]

\* directories of at most MaxFiles non-empty files and MaxPix pixels in all
Dirs ==
    UNION { { MkDir(ps, cuts) :
                cuts \in {c \in SUBSET (1..(Len(ps) - 1)) : Cardinality(c) < MaxFiles} } :
            ps \in PixSeqs }

\* the end-to-end scenario: one granule, four valid pixels, one per cell
ScenarioDir ==
    << Granule("scene.hdf",
               << Pixel(-45, -90, 100, 0, 300, 0), Pixel(-45, 90, 100, 0, 300, 0),
                  Pixel(45, -90, 200, 0, 400, 0), Pixel(45, 90, 200, 0, 400, 0) >>) >>

\* pixel kinds of the masked runs
SmallKinds ==
    { Pixel(-45, -90, 100, 0, 300, 0),
      Pixel(45, 90, 200, 1, 400, 0),
      Pixel(-45, -90, 0, 0, 0, 0),
      Pixel(-45, -90, -100, 0, 100, 0) }

\* directories of at most MaxFiles one-pixel files, and the scenario
SmallDirs ==
    { [j \in 1..Len(ps) |-> Granule(FileNames[j], <<ps[j]>>)] :
        ps \in UNION {[1..n -> SmallKinds] : n \in 0..MaxFiles} }
    \cup {ScenarioDir}

\* single-file directories around one pixel of any value: the pixel alone,
\* or next to a valid companion pixel of the same cell
RVals == {-32767, -300, -100, -13, -7, 0, 7, 13, 100, 300, 32767}

QcVals == {0, 1, 255}

RichPixels ==
    {Pixel(-45, -90, r, rq, n, nq) : r \in RVals, n \in RVals, rq \in QcVals, nq \in QcVals}

Companion == Pixel(-45, -90, 100, 0, 300, 0)

FilterDirs ==
    UNION { { <<Granule("a.hdf", <<p>>)>>,
              <<Granule("a.hdf", <<Companion, p>>)>>,
              <<Granule("a.hdf", <<p, Companion>>)>> } : p \in RichPixels }

\* NDVI values of wrapped datasets, and land-cover fields for Policy A
NdviVals == {NaN, Q(-1, 5), Q(3, 20), Q(1, 2), Q(3, 4), Q(9, 10)}

MixedClasses ==
    [shape |-> GridShape,
     data |-> [ix \in Indices(GridShape) |->
                 IF ix = <<1, 1>> THEN 1 ELSE IF ix = <<1, 2>> THEN 5
                 ELSE IF ix = <<2, 1>> THEN 18 ELSE -1]]

LosFields ==
    { Full(GridShape, 0), Full(GridShape, 17), MixedClasses, Full(<<>>, 3),
      Full(<<1, nlon>>, 0) }

HalfRows == [shape |-> GridShape,
             data |-> [ix \in Indices(GridShape) |-> IF ix[1] = 1 THEN F(1) ELSE F(0)]]

Masks ==
    { NoMask,
      MaskOf(Full(GridShape, F(1))), MaskOf(Full(GridShape, F(0))),
      MaskOf(Full(GridShape, Q(1, 2))), MaskOf(HalfRows),
      MaskOf(Full(<<>>, F(1))), MaskOf(Full(<<>>, F(0))),
      MaskOf(Full(<<1, nlon>>, Q(1, 2))), MaskOf(Full(<<nlat, 1>>, Q(1, 2))),
      MaskOf(Full(<<nlon>>, Q(1, 2))),
      MaskOf(Full(<<nlat + 1, nlon>>, F(1))), MaskOf(Full(<<1, nlat, nlon>>, F(1))) }

\* land-cover fields handed to VegInd.ndvi2fpar
LcFields == { Full(GridShape, 0), Full(<<>>, 0), Full(<<1, nlon>>, 0), Full(<<nlat + 1, nlon>>, 0) }

Prior == Wrap([c \in Cells |-> Q(1, 4)], <<"old.hdf">>)

----------------------------------------------------------------------------
(* Spec: one pipeline run on a container - aggregation with an optional     *)
(* mask, then VegInd.ndvi2fpar                                              *)

Init == \E ds \in {Blank, Prior} : InitWith(ds)

Regrid(D, M) == pc = "idle" /\ \E d \in D, m \in M : RegridStart(d, m)

Next ==
    \/ Regrid(SmallDirs, Masks)
    \/ RegridGranule
    \/ RegridFinish
    \/ \E lc \in LcFields : Ndvi2fpar(lc)

Spec == Init /\ [][Next]_vars

----------------------------------------------------------------------------
(* SpecAccum: unmasked aggregation of every bounded directory *)

InitAccum == InitWith(Blank)

NextAccum ==
    \/ Regrid(Dirs, {NoMask})
    \/ RegridGranule
    \/ RegridFinish

SpecAccum == InitAccum /\ [][NextAccum]_vars

----------------------------------------------------------------------------
(* SpecFilter: unmasked aggregation of one granule around one pixel *)

InitFilter == InitWith(Blank)

NextFilter ==
    \/ Regrid(FilterDirs, {NoMask})
    \/ RegridGranule
    \/ RegridFinish

SpecFilter == InitFilter /\ [][NextFilter]_vars

----------------------------------------------------------------------------
(* SpecConv: one of the three conversions applied to a wrapped dataset or   *)
(* to the result of an unmasked aggregation into a fresh container          *)

InitConv == \E g \in [Cells -> NdviVals] : InitWith(Wrap(g, <<>>))

RegridFresh == dsout = Blank /\ Regrid(SmallDirs, {NoMask})

\* one conversion per run
Unconverted == conv = NoConv

NextConv ==
    \/ RegridFresh
    \/ RegridGranule
    \/ RegridFinish
    \/ Unconverted /\ \E lc \in LosFields : CallLos(lc)
    \/ Unconverted /\ CallLin
    \/ Unconverted /\ CallJojo

SpecConv == InitConv /\ [][NextConv]_vars

----------------------------------------------------------------------------
(* Claims *)

Acc == <<num, red, nir>>

\* element-wise sum of two partial accumulators
Merge(a, b) ==
    <<[c \in Cells |-> a[1][c] + b[1][c]],
      [c \in Cells |-> a[2][c] + b[2][c]],
      [c \in Cells |-> a[3][c] + b[3][c]]>>

Perms(n) == {f \in [1..n -> 1..n] : \A i, j \in 1..n : f[i] = f[j] => i = j}

Permuted(files, f) == [k \in 1..Len(files) |-> files[f[k]]]

\* the files at the positions S, in list order
Sublist(files, S) == [j \in 1..Cardinality(S) |-> files[Kth(S, j)]]

RemoveAt(px, i) == [k \in 1..(Len(px) - 1) |-> IF k < i THEN px[k] ELSE px[k + 1]]

\* a fill value in either band, or an unusable quality flag in either band
IsExcluded(p) ==
    \/ p.red = 32767 \/ p.red = -32767
    \/ p.nir = 32767 \/ p.nir = -32767
    \/ p.redqc = 255
    \/ p.nirqc = 255

AbsQ(x) == <<AbsI(x[1]), x[2]>>

Near(x, y, tol) == IsFinite(x) /\ Le(AbsQ(Sub(x, y)), tol)

\* C1: a call whose glob result is empty fails with the no-input error at once:
\* it never reaches the loop, the accumulators are never allocated, and the
\* container (NDVI values, input_files) is what it was before the call.
C1_Step ==
    (pc = "idle" /\ pc' # "idle" /\ flist' = <<>>)
        => /\ pc' = "failed"
           /\ err' = "EOFError"
           /\ dsout' = dsout
           /\ num' = None /\ red' = None /\ nir' = None

C1_NoInputFatal ==
    /\ [](flist = <<>> => pc \in {"idle", "failed"})
    /\ [][C1_Step]_vars

C1_Witness ==
    pc = "failed" /\ err = "EOFError" /\ flist = <<>> /\ dsout = Prior

\* C2: when the loop has run, the accumulators equal those of every permutation
\* of the file list, and the element-wise sum of the partial accumulators of
\* every split of the list into two non-empty sublists.
C2_OrderIndependentMergeable ==
    pc = "done" =>
        /\ \A f \in Perms(Len(flist)) : Aggregate(Permuted(flist, f)) = Acc
        /\ \A S \in SUBSET (1..Len(flist)) :
              (S # {} /\ S # 1..Len(flist)) =>
                  Merge(Aggregate(Sublist(flist, S)),
                        Aggregate(Sublist(flist, (1..Len(flist)) \ S))) = Acc

C2_Witness ==
    pc = "done" /\ Len(flist) = 3 /\ num[<<1, 1>>] = 2 /\ num[<<2, 2>>] = 1

\* C3: a pixel with a fill value (32767 or -32767) in either band, or quality
\* flag 255 in either band, contributes nothing: the accumulators equal those
\* of the granule with that pixel removed, whatever its other fields.
C3_QCExclusion ==
    pc = "done" =>
        \A k \in 1..Len(flist) : \A i \in 1..Len(flist[k].px) :
            IsExcluded(flist[k].px[i]) =>
                Acc = Aggregate([j \in 1..Len(flist) |->
                        IF j = k THEN [flist[j] EXCEPT !.px = RemoveAt(flist[j].px, i)]
                        ELSE flist[j]])

C3_Witness ==
    /\ pc = "done"
    /\ Len(flist[1].px) = 2
    /\ flist[1].px[2] = Pixel(-45, -90, -32767, 0, 300, 0)
    /\ num[<<1, 1>>] = 1 /\ red[<<1, 1>>] = 100 /\ nir[<<1, 1>>] = 300

C5_NaNOnlyWhereEmpty ==
    pc = "done" =>
        \A c \in Cells :
            /\ num[c] = 0 => (red[c] = 0 /\ nir[c] = 0 /\ isnan(dsout.NDVI[c]))
            /\ num[c] >= 1 => ~isnan(dsout.NDVI[c])

\* C5 (amended): after an unmasked aggregation, a cell with count 0 has zero
\* sums and NaN NDVI; NDVI is NaN exactly in the cells where both sums are 0
\* (whatever the count); a cell with nirSum + redSum # 0 has the finite value
\* (nirSum - redSum)/(nirSum + redSum).
C5_NaNWhereSumsZero ==
    pc = "done" =>
        \A c \in Cells :
            /\ num[c] = 0 => (red[c] = 0 /\ nir[c] = 0 /\ isnan(dsout.NDVI[c]))
            /\ isnan(dsout.NDVI[c]) <=> (red[c] = 0 /\ nir[c] = 0)
            /\ nir[c] + red[c] # 0 =>
                  /\ IsFinite(dsout.NDVI[c])
                  /\ Mul(dsout.NDVI[c], F(nir[c] + red[c])) = F(nir[c] - red[c])

C5_Witness ==
    /\ pc = "done"
    /\ num[<<1, 1>>] >= 1 /\ isnan(dsout.NDVI[<<1, 1>>])
    /\ num[<<2, 2>>] >= 1 /\ IsFinite(dsout.NDVI[<<2, 2>>])
    /\ num[<<1, 2>>] = 0

\* C6 (as claimed): with a mask of 1 in every cell the NDVI written is the
\* unblended ratio in every cell; with a mask of 0 in every cell it is NDVIMIN
\* in every cell, cells without contributing pixels included.
C6_MaskIdentity ==
    pc = "done" =>
        /\ mask = MaskOf(Full(GridShape, F(1))) =>
              \A c \in Cells : dsout.NDVI[c] = Div(F(nir[c] - red[c]), F(nir[c] + red[c]))
        /\ mask = MaskOf(Full(GridShape, F(0))) =>
              \A c \in Cells : dsout.NDVI[c] = Q(-3, 10)

\* the conversion function named by a conversion record, applied to a grid
Reapply(policy, ndvi, lc) ==
    IF policy = "los" THEN ndvi2fpar_los(ndvi, lc)
    ELSE IF policy = "lin" THEN ndvi2fpar_lin(ndvi)
    ELSE ndvi2fpar_jojo(ndvi)

\* a grid with its NaN cells replaced by a defined value
Defined(ndvi) == [c \in Cells |-> IF isnan(ndvi[c]) THEN Q(1, 2) ELSE ndvi[c]]

\* C7: after an unmasked aggregation a cell with count 0 has NaN NDVI; each of
\* the three conversions (Policy A for any class id, in or out of [0, NTYPE))
\* gives fpar = 0 in every NaN cell, and in every other cell the value it gives
\* when the NaN cells hold a defined value instead.
C7_UndefinedPropagation ==
    /\ pc = "done" => \A c \in Cells : num[c] = 0 => isnan(dsout.NDVI[c])
    /\ (conv.policy \in {"los", "lin", "jojo"} /\ conv.err = "") =>
          \A c \in Cells :
              IF isnan(conv.ndvi[c]) THEN conv.fpar[c] = F(0)
              ELSE conv.fpar[c] =
                      Reapply(conv.policy, Defined(conv.ndvi), conv.lctype).fpar[c]

C7_Witness ==
    /\ pc = "done"
    /\ num[<<1, 2>>] = 0 /\ num[<<1, 1>>] = 1
    /\ conv.policy = "los" /\ conv.err = ""
    /\ conv.lctype = MixedClasses
    /\ conv.fpar[<<1, 2>>] = F(0)
    /\ conv.fpar[<<1, 1>>] # F(0)

\* C8 (as claimed): the scenario granule gives count 1 in the four cells,
\* ndvi = [0.5, 0.5, 1/3, 1/3], and VegInd.ndvi2fpar gives
\* fpar = [0.5, 0.5, 0.2778, 0.2778] within 1e-4.
ScenarioRun == pc = "done" /\ flist = ScenarioDir /\ ~mask.given

ScenarioNdvi ==
    /\ num = [c \in Cells |-> 1]
    /\ dsout.NDVI = [c \in Cells |-> IF c[1] = 1 THEN Q(1, 2) ELSE Q(1, 3)]

C8_ScenarioAsClaimed ==
    ScenarioRun =>
        /\ ScenarioNdvi
        /\ conv.policy = "ndvi2fpar" =>
              \A c \in Cells :
                  Near(conv.fpar[c],
                       IF c[1] = 1 THEN Q(5000, 10000) ELSE Q(2778, 10000),
                       Q(1, 10000))

\* C8 (amended): the scenario granule gives count 1 in the four cells,
\* ndvi = [0.5, 0.5, 1/3, 1/3], and VegInd.ndvi2fpar gives
\* fpar = [0.4375, 0.4375, 0.2292, 0.2292] within 1e-4 (exactly 7/16 and 11/48).
C8_Scenario ==
    ScenarioRun =>
        /\ ScenarioNdvi
        /\ conv.policy = "ndvi2fpar" =>
              \A c \in Cells :
                  /\ Near(conv.fpar[c],
                          IF c[1] = 1 THEN Q(4375, 10000) ELSE Q(2292, 10000),
                          Q(1, 10000))
                  /\ conv.fpar[c] = IF c[1] = 1 THEN Q(7, 16) ELSE Q(11, 48)

C8_Witness == ScenarioRun /\ conv.policy = "ndvi2fpar" /\ conv.err = ""

\* the mask value numpy pairs with cell c, for the shapes that broadcast to the grid
MaskAt(a, c) ==
    IF a.shape = <<>> THEN a.data[<<>>]
    ELSE IF a.shape = <<nlon>> THEN a.data[<<c[2]>>]
    ELSE IF a.shape = <<1, nlon>> THEN a.data[<<1, c[2]>>]
    ELSE IF a.shape = <<nlat, 1>> THEN a.data[<<c[1], 1>>]
    ELSE a.data[c]

FitsGrid(shape) ==
    shape \in {<<>>, <<nlon>>, <<1, nlon>>, <<nlat, 1>>, <<nlat, nlon>>}

Finished == pc \in {"done", "failed"} /\ flist # <<>>

\* C9 (as claimed): a mask whose shape is not the grid's makes the aggregation
\* fail, and a land-cover field whose shape is not the grid's makes
\* VegInd.ndvi2fpar fail.
C9_ShapeMismatchFails ==
    /\ (Finished /\ mask.given /\ mask.arr.shape # GridShape) => pc = "failed"
    /\ (conv.policy = "ndvi2fpar" /\ conv.lctype.shape # GridShape) => conv.err # ""

\* C9 (amended): no shape is checked.  A mask that broadcasts to the grid
\* (a scalar, one row, one column, a 1-d row) is broadcast and the blended
\* NDVI is written; any other mask makes the call fail with ValueError and
\* leaves the container as it was.  VegInd.ndvi2fpar never reads the
\* land-cover field and returns an fPAR grid whatever its shape.
C9_NoShapeCheck ==
    /\ (Finished /\ mask.given) =>
          IF FitsGrid(mask.arr.shape)
          THEN /\ pc = "done"
               /\ \A c \in Cells :
                     dsout.NDVI[c] =
                        Add(Mul(Sub(Div(F(nir[c] - red[c]), F(nir[c] + red[c])), Q(-3, 10)),
                                MaskAt(mask.arr, c)),
                            Q(-3, 10))
          ELSE /\ pc = "failed"
               /\ err = "ValueError"
               /\ dsout \in {Blank, Prior}
    /\ conv.policy = "ndvi2fpar" =>
          /\ conv.err = ""
          /\ DOMAIN conv.fpar = Cells
          /\ \A c \in Cells : isnan(conv.ndvi[c]) => conv.fpar[c] = F(0)

C9_Witness ==
    /\ pc = "done"
    /\ mask.given /\ mask.arr.shape = <<>>
    /\ num[<<1, 1>>] = 1
    /\ conv.policy = "ndvi2fpar" /\ conv.lctype.shape = <<1, nlon>>
    /\ conv.err = ""

\* C10: Policy C on a defined NDVI value v: 0 when v <= 0.15, (v - 0.15)/0.6*0.75
\* when 0.15 < v <= 0.75, v when v > 0.75, with no clamp; so it is non-decreasing
\* and continuous (its increments are at most 1.25 times those of v).
C10_SaturatingRamp ==
    conv.policy = "jojo" =>
        /\ \A c \in Cells :
              LET v == conv.ndvi[c]
                  f == conv.fpar[c]
              IN  ~isnan(v) =>
                      /\ Le(v, Q(15, 100)) => f = F(0)
                      /\ (Lt(Q(15, 100), v) /\ Le(v, Q(75, 100))) =>
                            f = Mul(Div(Sub(v, Q(15, 100)), Q(60, 100)), Q(75, 100))
                      /\ Lt(Q(75, 100), v) => f = v
        /\ \A c1, c2 \in Cells :
              (IsFinite(conv.ndvi[c1]) /\ IsFinite(conv.ndvi[c2])
                    /\ Le(conv.ndvi[c1], conv.ndvi[c2])) =>
                  /\ Le(conv.fpar[c1], conv.fpar[c2])
                  /\ Le(Sub(conv.fpar[c2], conv.fpar[c1]),
                        Mul(Q(5, 4), Sub(conv.ndvi[c2], conv.ndvi[c1])))

C10_Witness ==
    /\ conv.policy = "jojo"
    /\ conv.ndvi[<<1, 1>>] = Q(15, 100) /\ conv.fpar[<<1, 1>>] = F(0)
    /\ conv.ndvi[<<1, 2>>] = Q(1, 2) /\ conv.fpar[<<1, 2>>] = Q(7, 16)
    /\ conv.ndvi[<<2, 1>>] = Q(75, 100) /\ conv.fpar[<<2, 1>>] = Q(75, 100)
    /\ conv.ndvi[<<2, 2>>] = Q(9, 10) /\ conv.fpar[<<2, 2>>] = Q(9, 10)

=============================================================================
